---------------------------- MODULE Spec2Model ----------------------------
(***************************************************************************)
(* Political Alpha: the data-gathering pipeline of the daily newsletter    *)
(* cron job.  Three programs of the repository are modelled; `rev` says    *)
(* which one runs:                                                         *)
(*   "rss"  - src/cron.js: RSS bridges, scrapeTweets / scrapeAllAccounts   *)
(*   "rev1" - src/api/cron.js lines 1-628: Twitter syndication,            *)
(*            QuiverQuant page, Google News RSS                            *)
(*   "rev2" - src/api/cron.js lines 629-1215: QuiverQuant congress and     *)
(*            insider news, Google News RSS, Capitol Trades                *)
(* Every network fetch is an await: the model has one step per response,   *)
(* so the sources of one run interleave freely.  The clock is read as one  *)
(* fixed instant Now during a run.                                         *)
(***************************************************************************)
EXTENDS Integers, Sequences, FiniteSets, TLC

VARIABLES
    rev,        \* the program that runs
    hpc,        \* position of the handler: "request", "accepted", "start",
                \* "gathering", "gathered", "analyzed", "built", "loaded", "sent",
                \* "responded"
    pc,         \* per source: "idle", "fetch" (a fetch is awaited), "done"
    strat,      \* per source: index of the strategy (bridge, method, query) last invoked
    acc,        \* per source: the local accumulator (`items`, `tweets`, `trades`)
    res,        \* per source: the settled promise [status, value]
    last,       \* per source: outcome of the last answered strategy [kind, items]
    nfail,      \* per source: how many of the invoked strategies failed
    twitterResults, \* first revision: the promise of the Twitter group
    allItems,   \* the orchestrator's merged list
    errors,     \* the orchestrator's errors list
    call,       \* a parsing function called on its own: [fn, input, output]
    run,        \* the handler invocation: the request, what each step did, the response
    settled     \* the sources in the order their promises settled (kept by SpecMerge)

vars == <<rev, hpc, pc, strat, acc, res, last, nfail, twitterResults, allItems, errors, call, run, settled>>

-----------------------------------------------------------------------------
(* Bounds of the model *)

\* how many of TARGET_ACCOUNTS src/cron.js scrapes
MaxAccounts == 2
\* how many of TWITTER_HANDLES the first revision of src/api/cron.js fetches
MaxHandles == 1
\* the longest list of entries an RSS feed holds
MaxItems == 2
\* the longest list of entries (tweets, articles, rows, matches) a page or a
\* news feed fetched by src/api/cron.js holds
MaxEntries == 1

-----------------------------------------------------------------------------
(* Generic helpers *)

Min(a, b) == IF a < b THEN a ELSE b

SeqUpTo(S, n) == UNION {[1..k -> S] : k \in 0..n}

RECURSIVE Flatten(_)
Flatten(ss) == IF ss = <<>> THEN <<>> ELSE Head(ss) \o Flatten(Tail(ss))

Range(f) == {f[x] : x \in DOMAIN f}

\* Array.prototype.slice(0, n)
slice(s, n) == SubSeq(s, 1, Min(n, Len(s)))

-----------------------------------------------------------------------------
(* Time.  A date string is absent/empty, unparseable, or parses to an      *)
(* instant in milliseconds.                                                *)

TWENTY_FOUR_HOURS_MS == 24 * 60 * 60 * 1000

\* Date.now(), one reading for the whole run
Now == 2 * TWENTY_FOUR_HOURS_MS

NoDate == [present |-> FALSE, valid |-> FALSE, ms |-> 0]
BadDate == [present |-> TRUE, valid |-> FALSE, ms |-> 0]
DateAt(t) == [present |-> TRUE, valid |-> TRUE, ms |-> t]

\* new Date().toISOString()
nowISOString == DateAt(Now)

\* new Date(d).getTime(): a number or NaN
getTime(d) == [nan |-> ~(d.present /\ d.valid), ms |-> d.ms]
Num(n) == [nan |-> FALSE, ms |-> n]

\* a >= c in JavaScript: false when a is NaN
GE(a, c) == ~a.nan /\ a.ms >= c

\* a || b on date strings: the empty / undefined string is falsy
OrDate(a, b) == IF a.present THEN a ELSE b

\* the date strings the sources may carry
StaleDate == DateAt(Now - TWENTY_FOUR_HOURS_MS - 1)
EdgeDate == DateAt(Now - TWENTY_FOUR_HOURS_MS)
SrcDates == {NoDate, BadDate, StaleDate, EdgeDate}

\* whether a date string is a known instant
Known(d) == d.present /\ d.valid

-----------------------------------------------------------------------------
(* Text.  A text is a sequence of tokens: a character, or one markup unit  *)
(* (a tag, an entity, a CDATA marker) that the regular expressions of      *)
(* stripHtml treat as a whole.                                             *)

Tags == {"<b>", "</b>", "<br>"}
CData == {"<![CDATA[", "]]>"}
Spaces == {" ", "\n", "\t"}

RECURSIVE Without(_, _)
Without(s, D) ==
    IF s = <<>> THEN <<>>
    ELSE IF Head(s) \in D THEN Without(Tail(s), D)
    ELSE <<Head(s)>> \o Without(Tail(s), D)

\* .replace(/&amp;/g, "&") ... .replace(/&#39;/g, "'")
decodeEntity(c) ==
    CASE c = "&amp;" -> "&"
      [] c = "&lt;" -> "<"
      [] c = "&gt;" -> ">"
      [] c = "&quot;" -> "\""
      [] c = "&#39;" -> "'"
      [] OTHER -> c
decodeEntities(s) == [i \in 1..Len(s) |-> decodeEntity(s[i])]

\* .replace(/\s+/g, " "): every run of white space becomes one space
RECURSIVE collapseSpaces(_)
collapseSpaces(s) ==
    IF s = <<>> THEN <<>>
    ELSE IF Head(s) \in Spaces
         THEN IF Tail(s) # <<>> /\ Head(Tail(s)) \in Spaces
              THEN collapseSpaces(Tail(s))
              ELSE <<" ">> \o collapseSpaces(Tail(s))
         ELSE <<Head(s)>> \o collapseSpaces(Tail(s))

\* String.prototype.trim, on a text whose white space is already collapsed
trim(s) ==
    LET a == IF s # <<>> /\ Head(s) \in Spaces THEN Tail(s) ELSE s
    IN  IF a # <<>> /\ a[Len(a)] \in Spaces THEN SubSeq(a, 1, Len(a) - 1) ELSE a

\* stripHtml of src/cron.js: tags are deleted, entities decoded, spaces collapsed
stripHtmlRss(html) ==
    trim(collapseSpaces(decodeEntities(Without(html, Tags))))

\* stripHtml of the first revision of src/api/cron.js: CDATA markers go first
stripHtml1(html) ==
    trim(collapseSpaces(decodeEntities(Without(Without(html, CData), Tags))))

\* .replace(/<[^>]*>/g, " ") and .replace(/&nbsp;/g, " ") of the second revision
tagToSpace(c) == IF c \in Tags THEN " " ELSE c
nbspToSpace(c) == IF c = "&nbsp;" THEN " " ELSE c
tagsToSpaces(s) == [i \in 1..Len(s) |-> tagToSpace(s[i])]
nbspsToSpaces(s) == [i \in 1..Len(s) |-> nbspToSpace(s[i])]

\* stripHtml of the second revision: a tag becomes a space, &nbsp; too
stripHtml2(html) ==
    trim(collapseSpaces(
        nbspsToSpaces(decodeEntities(tagsToSpaces(Without(html, CData))))))

\* String.prototype.includes, for a word of the text
includes(text, word) == \E i \in 1..Len(text) : text[i] = word

\* n copies of the character c
Rep(c, n) == [i \in 1..n |-> c]

\* String.prototype.toLowerCase, per character
lower(c) ==
    CASE c = "A" -> "a"
      [] c = "B" -> "b"
      [] c = "H" -> "h"
      [] c = "T" -> "t"
      [] OTHER -> c

toLowerCase(s) == [i \in 1..Len(s) |-> lower(s[i])]

\* String.prototype.substring(0, n)
substring0(s, n) == SubSeq(s, 1, Min(n, Len(s)))

-----------------------------------------------------------------------------
(* The sources of each program, in the order the orchestrator lists them *)

\* TARGET_ACCOUNTS of src/cron.js, TWITTER_HANDLES of src/api/cron.js
TARGET_ACCOUNTS == <<"@pelositracker", "@capitol2iq", "@QuiverQuant", "@unusual_whales">>

\* the accounts the model scrapes: the first MaxAccounts of the list
Accounts == SubSeq(TARGET_ACCOUNTS, 1, Min(MaxAccounts, Len(TARGET_ACCOUNTS)))
Handles == SubSeq(TARGET_ACCOUNTS, 1, Min(MaxHandles, Len(TARGET_ACCOUNTS)))

\* RSS_BRIDGES.length
NumBridges == 4

Revisions == {"rss", "rev1", "rev2"}

\* the labels array of gatherAllData (second revision)
labels == <<"QuiverQuant Congress", "QuiverQuant Insiders", "Google News", "Capitol Trades">>

Order(r) ==
    CASE r = "rss" -> Accounts
      [] r = "rev1" -> Handles \o <<"QuiverQuant", "Google News">>
      [] r = "rev2" -> labels

Sources(r) == Range(Order(r))

\* the `source` field of the items a source builds
ItemSource(r, s) ==
    CASE r = "rev2" /\ s = "Google News" -> "News"
      [] OTHER -> s

\* no parsing function has been called on its own
NoCall == [fn |-> "none"]

Pending == [status |-> "pending", value |-> <<>>]
Fulfilled(v) == [status |-> "fulfilled", value |-> v]

NoOutcome == [kind |-> "none", items |-> <<>>]
Failed == [kind |-> "fail", items |-> <<>>]
\* the outcome of a strategy that answered and produced the list v
Answered(v) == [kind |-> IF v = <<>> THEN "empty" ELSE "items", items |-> v]

-----------------------------------------------------------------------------
(* How a source moves on after one of its fetches is answered *)

Fails(o) == IF o.kind = "fail" THEN 1 ELSE 0

\* the source awaits the fetch of its next strategy
Advance(s, o) ==
    /\ strat' = [strat EXCEPT ![s] = strat[s] + 1]
    /\ last' = [last EXCEPT ![s] = o]
    /\ nfail' = [nfail EXCEPT ![s] = nfail[s] + Fails(o)]
    /\ UNCHANGED <<pc, res>>

\* variant: the throw of the last fetch leaves the source function
ReturnOrThrow(s, o, v) ==
    /\ pc' = [pc EXCEPT ![s] = "done"]
    /\ res' = [res EXCEPT ![s] = IF o.kind = "fail"
                                 THEN [status |-> "rejected", value |-> <<>>]
                                 ELSE Fulfilled(v)]
    /\ last' = [last EXCEPT ![s] = o]
    /\ nfail' = [nfail EXCEPT ![s] = nfail[s] + Fails(o)]
    /\ UNCHANGED strat

\* the source function returns v: its promise is fulfilled
Return(s, o, v) ==
    /\ pc' = [pc EXCEPT ![s] = "done"]
    /\ res' = [res EXCEPT ![s] = Fulfilled(v)]
    /\ last' = [last EXCEPT ![s] = o]
    /\ nfail' = [nfail EXCEPT ![s] = nfail[s] + Fails(o)]
    /\ UNCHANGED strat

\* the orchestrator calls every source function: each runs to its first await
StartAll ==
    /\ pc' = [s \in Sources(rev) |-> "fetch"]
    /\ strat' = [s \in Sources(rev) |-> 1]

-----------------------------------------------------------------------------
(* src/cron.js: scrapeTweets over the RSS bridges *)

\* what a feed entry may hold
RssContents == {<<"<b>", "T", "</b>", " ", "\n", "t", "&amp;">>}
FeedEntries == [pubDate : SrcDates, content : RssContents]
Feeds == SeqUpTo(FeedEntries, MaxItems)

\* item.pubDate ? new Date(item.pubDate).getTime() : 0
pubDateTime(item) ==
    IF item.pubDate.present THEN getTime(item.pubDate) ELSE Num(0)

\* the filter callback: pubDate >= cutoff
isRecent(item) == GE(pubDateTime(item), Now - TWENTY_FOUR_HOURS_MS)

\* (feed.items || []).filter(...)
recent(feed) == SelectSeq(feed, isRecent)

\* the object scrapeTweets builds for one recent entry. Two fields are
\* records of the model: `dated`, whether the entry came with a parseable
\* timestamp of its own, and `path`, the field or pattern its date was read from
tweetOfEntry(handle, item) ==
    [source |-> handle,
     text |-> stripHtmlRss(item.content),
     date |-> OrDate(item.pubDate, nowISOString),
     dated |-> Known(item.pubDate), path |-> "pubDate"]

\* what scrapeTweets returns from a bridge that answered with `feed`
scrapeTweetsReturn(handle, feed) ==
    LET r == recent(feed)
    IN  [i \in 1..Len(r) |-> tweetOfEntry(handle, r[i])]

\* variant: the loop stops one bridge early
hasNextBridgeButLast(k) == k < NumBridges - 1

\* whether the loop over RSS_BRIDGES has another bridge after bridge k
hasNextBridge(k) == k < NumBridges

\* variant: the loop lacks the "return tweets" of a bridge that found tweets
triesNextBridgeAlways(o) == TRUE

\* variant: the loop lacks the "return []" of a healthy feed without tweets
triesNextBridgeUnlessTweets(o) == o.kind # "items"

\* whether the loop goes on to the next bridge after outcome o: only the
\* catch block falls through, both branches of the try block return
triesNextBridge(o) == o.kind = "fail"

\* one bridge answers (or fails) for handle h
scrapeTweets(h) ==
    /\ rev = "rss"
    /\ pc[h] = "fetch"
    /\ \E o \in {Failed} \cup {Answered(scrapeTweetsReturn(h, feed)) : feed \in Feeds} :
         \* Failed: parser.parseURL throws (timeout, non-success status, bad
         \* XML); otherwise the feed was fetched and parsed
         IF triesNextBridge(o) /\ hasNextBridge(strat[h])
         THEN Advance(h, o)
         ELSE Return(h, o, o.items)
    /\ UNCHANGED <<settled, call, run, rev, hpc, acc, twitterResults, allItems, errors>>

\* variant: each fulfilled value is assigned to the list instead of pushed
RECURSIVE fulfilledValuesAssigned(_, _)
fulfilledValuesAssigned(order, results) ==
    IF order = <<>> THEN <<>>
    ELSE IF results[order[Len(order)]].status = "fulfilled"
         THEN results[order[Len(order)]].value
         ELSE fulfilledValuesAssigned(SubSeq(order, 1, Len(order) - 1), results)

\* variant: the values are put in front of the list, item by item
RECURSIVE fulfilledValuesUnshifted(_, _)
fulfilledValuesUnshifted(order, results) ==
    IF order = <<>> THEN <<>>
    ELSE LET v == IF results[Head(order)].status = "fulfilled"
                  THEN results[Head(order)].value ELSE <<>>
         IN  fulfilledValuesUnshifted(Tail(order), results)
             \o [i \in 1..Len(v) |-> v[Len(v) + 1 - i]]

\* variant: the value of each promise is put in front of the values before it
RECURSIVE fulfilledValuesLastFirst(_, _)
fulfilledValuesLastFirst(order, results) ==
    IF order = <<>> THEN <<>>
    ELSE fulfilledValuesLastFirst(Tail(order), results)
         \o (IF results[Head(order)].status = "fulfilled"
             THEN results[Head(order)].value ELSE <<>>)

\* the fulfilled values of the promises of `order`, taken along `list`
RECURSIVE valuesAlong(_, _, _)
valuesAlong(list, order, results) ==
    IF list = <<>> THEN <<>>
    ELSE (IF Head(list) \in Range(order) /\ results[Head(list)].status = "fulfilled"
          THEN results[Head(list)].value ELSE <<>>)
         \o valuesAlong(Tail(list), order, results)

\* variant: each value is pushed when its promise settles
fulfilledValuesAsSettled(order, results) ==
    IF Range(order) \subseteq Range(settled)
    THEN valuesAlong(settled, order, results)
    ELSE valuesAlong(order, order, results)

\* results.forEach: the values of the fulfilled promises, in list order
RECURSIVE fulfilledValues(_, _)
fulfilledValues(order, results) ==
    IF order = <<>> THEN <<>>
    ELSE (IF results[Head(order)].status = "fulfilled"
          THEN results[Head(order)].value ELSE <<>>)
         \o fulfilledValues(Tail(order), results)

\* variant: a promise fulfilled with an empty list is reported as failed too
RECURSIVE rejectedOrEmptyLabels(_, _)
rejectedOrEmptyLabels(order, results) ==
    IF order = <<>> THEN <<>>
    ELSE (IF results[Head(order)].status = "fulfilled" /\ results[Head(order)].value # <<>>
          THEN <<>> ELSE <<Head(order)>>)
         \o rejectedOrEmptyLabels(Tail(order), results)

\* results.forEach: the labels of the promises that are not fulfilled
RECURSIVE rejectedLabels(_, _)
rejectedLabels(order, results) ==
    IF order = <<>> THEN <<>>
    ELSE (IF results[Head(order)].status = "fulfilled"
          THEN <<>> ELSE <<Head(order)>>)
         \o rejectedLabels(Tail(order), results)

\* scrapeAllAccounts is called: every scrapeTweets runs to its first await
scrapeAllAccounts ==
    /\ rev = "rss"
    /\ hpc = "start"
    /\ hpc' = "gathering"
    /\ StartAll
    /\ UNCHANGED <<settled, call, run, rev, acc, res, last, nfail, twitterResults, allItems, errors>>

\* Promise.allSettled resolves: the results are merged
scrapeAllAccountsSettled ==
    /\ rev = "rss"
    /\ hpc = "gathering"
    /\ \A s \in Sources(rev) : pc[s] = "done"
    /\ hpc' = "gathered"
    /\ allItems' = fulfilledValues(Order(rev), res)
    /\ errors' = rejectedLabels(Order(rev), res)
    /\ UNCHANGED <<settled, call, run, rev, pc, strat, acc, res, last, nfail, twitterResults>>

-----------------------------------------------------------------------------
(* src/api/cron.js, second revision: fetchQuiverQuantTrades *)

\* new Date().toLocaleDateString("en-US"): today, a date of the run's day
todayLocale == DateAt(Now)

\* the date as it is written into a text
dateWord(d) ==
    CASE d = NoDate -> ""
      [] d = BadDate -> "??"
      [] d = StaleDate -> "Jan. 5, 2026"
      [] d = EdgeDate -> "yesterday"
      [] OTHER -> "today"

\* one "Congress Trade:" block of the page: the matched role and name ("" when
\* the header pattern does not match), the first date found, and the matches
\* of the markdown, rendered-HTML and plain-text trade patterns
TradeMatches == {[type |-> "Purchase", ticker |-> "NVDA"]}
Articles ==
    [role : {"Representative"}, name : {"Pelosi"}, date : {NoDate, StaleDate},
     md : SeqUpTo(TradeMatches, 1), html : {<<>>}, plain : {<<>>}]
TradesPages == SeqUpTo(Articles, MaxEntries)

politicianOf(a) == IF a.name = "" THEN "Unknown" ELSE a.name
fullNameOf(a) == IF a.role # "" THEN <<a.role, politicianOf(a)>> ELSE <<politicianOf(a)>>
filingDateOf(a) == OrDate(a.date, todayLocale)
transactionOf(m) == IF m.type = "Purchase" THEN "BUY" ELSE "SELL"

\* the object pushed for one match m of article a
tradeOfMatch(a, m) ==
    [source |-> "QuiverQuant Congress",
     text |-> fullNameOf(a)
              \o <<IF a.role # "" THEN a.role ELSE "Congress", "filed STOCK Act:",
                   transactionOf(m), m.ticker, "Filed", dateWord(filingDateOf(a))>>,
     date |-> filingDateOf(a),
     dated |-> Known(a.date), path |-> "filingDate"]

\* variant: the rendered-HTML and plain-text patterns are always tried
noTradeOfAlways(trades, a) == TRUE

\* trades.filter(t => t.text.includes(politician)).length === 0
noTradeOf(trades, a) ==
    \A i \in 1..Len(trades) : ~includes(trades[i].text, politicianOf(a))

\* the body of the loop over the articles, for one article
tradesOfArticle(trades, a) ==
    LET t1 == trades \o [i \in 1..Len(a.md) |-> tradeOfMatch(a, a.md[i])]
        t2 == IF noTradeOf(t1, a)
              THEN t1 \o [i \in 1..Len(a.html) |-> tradeOfMatch(a, a.html[i])]
              ELSE t1
    IN  IF noTradeOf(t2, a)
        THEN t2 \o [i \in 1..Len(a.plain) |-> tradeOfMatch(a, a.plain[i])]
        ELSE t2

RECURSIVE tradesLoop(_, _)
tradesLoop(trades, articles) ==
    IF articles = <<>> THEN trades
    ELSE tradesLoop(tradesOfArticle(trades, Head(articles)), Tail(articles))

\* the trades extracted from a page: the first 15 articles
quiverTradesOfPage(page) == tradesLoop(<<>>, slice(page, 15))

fetchQuiverQuantTrades ==
    LET s == "QuiverQuant Congress" IN
    /\ rev = "rev2"
    /\ pc[s] = "fetch"
    /\ \/ \* fetch throws or the status is not ok: the empty list is returned
          Return(s, Failed, <<>>)
       \/ \E page \in TradesPages :
            LET out == quiverTradesOfPage(page)
            IN  Return(s, Answered(out), out)
    /\ UNCHANGED <<settled, call, run, rev, hpc, acc, twitterResults, allItems, errors>>

-----------------------------------------------------------------------------
(* second revision: fetchQuiverQuantInsiders *)

InsiderMatches == {[type |-> "Sale", entity |-> "CEO", ticker |-> "NVDA", shares |-> "1,000"]}
InsidersPages == SeqUpTo(InsiderMatches, MaxEntries)

insiderOfMatch(m) ==
    [source |-> "QuiverQuant Insiders",
     text |-> <<"Corporate Insider:", m.entity, "of", m.ticker,
                transactionOf(m), m.shares, "shares">>,
     date |-> nowISOString,
     dated |-> FALSE, path |-> "none"]

insidersOfPage(page) == [i \in 1..Len(page) |-> insiderOfMatch(page[i])]

fetchQuiverQuantInsiders ==
    LET s == "QuiverQuant Insiders" IN
    /\ rev = "rev2"
    /\ pc[s] = "fetch"
    /\ \/ Return(s, Failed, <<>>)
       \/ \E page \in InsidersPages :
            LET out == insidersOfPage(page)
            IN  Return(s, Answered(out), out)
    /\ UNCHANGED <<settled, call, run, rev, hpc, acc, twitterResults, allItems, errors>>

-----------------------------------------------------------------------------
(* fetchGoogleNewsRSS, both revisions of src/api/cron.js *)

\* queries.length
NumQueries == 2

\* two headlines that differ only in case and in their CDATA wrapping, and
\* the <item> blocks a query may return
HeadlineA == <<"<![CDATA[", "H", "]]>">>
HeadlineB == <<"h">>
NewsEntries ==
    [title : {HeadlineA, HeadlineB}, pubDate : {EdgeDate}, desc : {<<>>}]
    \cup [title : {HeadlineA}, pubDate : {NoDate, BadDate, StaleDate}, desc : {<<>>}]
    \cup [title : {<<>>}, pubDate : {EdgeDate}, desc : {<<>>}]
NewsXmls == SeqUpTo(NewsEntries, MaxEntries)

\* titleMatch ? stripHtml(titleMatch[1]) : ""
titleOf(r, e) == IF r = "rev1" THEN stripHtml1(e.title) ELSE stripHtml2(e.title)

\* pubDate ? new Date(pubDate).getTime() : 0
itemTime(e) == IF e.pubDate.present THEN getTime(e.pubDate) ELSE Num(0)

\* itemTime >= cutoff && title
newsKeeps(r, e) ==
    GE(itemTime(e), Now - TWENTY_FOUR_HOURS_MS) /\ titleOf(r, e) # <<>>

\* the object pushed for one kept <item>
newsOfEntry(r, e) ==
    IF r = "rev1"
    THEN [source |-> "Google News",
          text |-> trim(titleOf(r, e) \o <<".", " ">> \o stripHtml1(e.desc)),
          date |-> e.pubDate,
          dated |-> Known(e.pubDate), path |-> "pubDate"]
    ELSE [source |-> "News",
          text |-> titleOf(r, e),
          date |-> e.pubDate,
          dated |-> Known(e.pubDate), path |-> "pubDate"]

newsOfXml(r, xml) ==
    LET kept == SelectSeq(xml, LAMBDA e : newsKeeps(r, e))
    IN  [i \in 1..Len(kept) |-> newsOfEntry(r, kept[i])]

\* the length of the prefix the duplicates are recognised by
\* variant: the key is the whole text
dedupPrefixWhole(r) == 100

dedupPrefix(r) == IF r = "rev1" THEN 60 ELSE 50

\* unique.slice(0, cap)
newsCap(r) == IF r = "rev1" THEN 15 ELSE 10

\* variant: the key is not lower-cased
keyOfCaseSensitive(item, n) == substring0(item.text, n)

\* item.text.substring(0, n).toLowerCase()
keyOf(item, n) == toLowerCase(substring0(item.text, n))

\* variant: the key of a discarded item is taken out of `seen`
RECURSIVE dedupLoopForgetting(_, _, _, _)
dedupLoopForgetting(items, seen, unique, n) ==
    IF items = <<>> THEN unique
    ELSE LET key == keyOf(Head(items), n)
         IN  IF key \notin seen
             THEN dedupLoopForgetting(Tail(items), seen \cup {key}, unique \o <<Head(items)>>, n)
             ELSE dedupLoopForgetting(Tail(items), seen \ {key}, unique, n)

\* the loop "for (const item of items)" with its Set `seen`
RECURSIVE dedupLoop(_, _, _, _)
dedupLoop(items, seen, unique, n) ==
    IF items = <<>> THEN unique
    ELSE LET key == keyOf(Head(items), n)
         IN  IF key \notin seen
             THEN dedupLoop(Tail(items), seen \cup {key}, unique \o <<Head(items)>>, n)
             ELSE dedupLoop(Tail(items), seen, unique, n)

\* variant: the loop pushes every item
dedupNothing(items, n) == items

dedup(items, n) == dedupLoop(items, {}, <<>>, n)

\* what fetchGoogleNewsRSS returns once both queries are through
newsReturn(r, items) == slice(dedup(items, dedupPrefix(r)), newsCap(r))

\* one pass of the loop over the queries with outcome o: its items are
\* pushed, and after the last query the function returns
newsQueryOutcome(o) ==
    LET s == "Google News"
        items == acc[s] \o o.items
    IN  IF strat[s] < NumQueries
        THEN /\ Advance(s, o)
             /\ acc' = [acc EXCEPT ![s] = items]
        ELSE /\ Return(s, o, newsReturn(rev, items))
             /\ acc' = [acc EXCEPT ![s] = <<>>]

\* one query is answered; after the last one the function returns
fetchGoogleNewsRSS ==
    /\ rev \in {"rev1", "rev2"}
    /\ pc["Google News"] = "fetch"
    /\ \/ newsQueryOutcome(Failed)
          \* Failed: fetch throws or the status is not ok, the query is skipped
       \/ \E o \in {Answered(newsOfXml(rev, xml)) : xml \in NewsXmls} :
            newsQueryOutcome(o)
    /\ UNCHANGED <<settled, call, run, rev, hpc, twitterResults, allItems, errors>>

-----------------------------------------------------------------------------
(* second revision: fetchCapitolTrades *)

\* one piece of the page between two "[Goto trade detail page.]" marks: the
\* politician and ticker found ("" when the pattern does not match), the
\* issuer's name and the first date
CapitolRows ==
    [politician : {"Pelosi"}, ticker : {"NVDA"}, company : {"NVIDIA"},
     tradeDate : {NoDate, StaleDate}]
    \cup [politician : {""}, ticker : {"NVDA"}, company : {"NVIDIA"}, tradeDate : {NoDate}]
CapitolPages == SeqUpTo(CapitolRows, MaxEntries)

\* variant: no row is skipped
capitolKeepsAll(row) == TRUE

\* "if (!politician) continue" and "if (!ticker && !company.includes("N/A")) continue"
capitolKeeps(row) ==
    /\ row.politician # ""
    /\ ~(row.ticker = "" /\ row.company # "N/A")

capitolOfRow(row) ==
    [source |-> "Capitol Trades",
     text |-> <<row.politician, ":", IF row.ticker # "" THEN row.ticker ELSE "N/A",
                row.company, "Traded",
                IF row.tradeDate.present THEN dateWord(row.tradeDate) ELSE "recently">>,
     date |-> OrDate(row.tradeDate, nowISOString),
     dated |-> Known(row.tradeDate), path |-> "tradeDate"]

\* the loop over the first 30 rows
capitolOfPage(page) ==
    LET kept == SelectSeq(slice(page, 30), capitolKeeps)
    IN  [i \in 1..Len(kept) |-> capitolOfRow(kept[i])]

fetchCapitolTrades ==
    LET s == "Capitol Trades" IN
    /\ rev = "rev2"
    /\ pc[s] = "fetch"
    /\ \/ Return(s, Failed, <<>>)
       \/ \E page \in CapitolPages :
            LET out == capitolOfPage(page)
            IN  Return(s, Answered(out), out)
    /\ UNCHANGED <<settled, call, run, rev, hpc, acc, twitterResults, allItems, errors>>

-----------------------------------------------------------------------------
(* second revision: gatherAllData *)

\* gatherAllData is called: the four source functions run to their first await
gatherAllData ==
    /\ rev = "rev2"
    /\ hpc = "start"
    /\ hpc' = "gathering"
    /\ StartAll
    /\ UNCHANGED <<settled, call, run, rev, acc, res, last, nfail, twitterResults, allItems, errors>>

\* Promise.allSettled resolves: results.forEach merges them
gatherAllDataSettled ==
    /\ rev = "rev2"
    /\ hpc = "gathering"
    /\ \A s \in Sources(rev) : pc[s] = "done"
    /\ hpc' = "gathered"
    /\ allItems' = fulfilledValues(Order(rev), res)
    /\ errors' = rejectedLabels(Order(rev), res)
    /\ UNCHANGED <<settled, call, run, rev, pc, strat, acc, res, last, nfail, twitterResults>>

-----------------------------------------------------------------------------
(* first revision of src/api/cron.js: fetchViaSyndication and its backup *)

\* the text of a tweet as the page carries it
TweetHtml == <<"<b>", "t", "</b>">>

\* an entry of the timeline in __NEXT_DATA__: text ("" when missing) and created_at
TimelineEntries ==
    [text : {<<"t">>}, created_at : SrcDates]
    \cup [text : {<<>>}, created_at : {EdgeDate}]

\* the page of the timeline endpoint: the __NEXT_DATA__ script ("none": no such
\* script, "bad": not JSON, "noTimeline": JSON without a timeline array, "data"),
\* and the <p> blocks that follow a data-tweet-id
TweetBlocks == {<<>>, <<TweetHtml>>}
SyndPages ==
    [next : {"none", "bad", "noTimeline"}, timeline : {<<>>}, blocks : TweetBlocks]
    \cup [next : {"data"}, timeline : SeqUpTo(TimelineEntries, MaxEntries),
          blocks : TweetBlocks]

\* the page of the backup endpoint: its <p class="...tweet-text..."> blocks
SearchPages == TweetBlocks

\* tweet.created_at || tweet.createdAt || new Date().toISOString()
createdAtOf(e) == OrDate(e.created_at, nowISOString)

\* extractTweetsFromSyndicationData: the entries that have a text
extractTweetsFromSyndicationData(page) ==
    IF page.next # "data" THEN <<>>
    ELSE LET withText == SelectSeq(page.timeline, LAMBDA e : e.text # <<>>)
         IN  [i \in 1..Len(withText) |->
                [text |-> withText[i].text,
                 created_at |-> createdAtOf(withText[i]),
                 dated |-> Known(withText[i].created_at)]]

\* tweetTime >= cutoff
tweetInWindow(entry) == GE(getTime(entry.created_at), Now - TWENTY_FOUR_HOURS_MS)

\* the tweets pushed from the embedded JSON
tweetsOfJson(handle, page) ==
    LET kept == SelectSeq(extractTweetsFromSyndicationData(page), tweetInWindow)
    IN  [i \in 1..Len(kept) |->
           [source |-> handle, text |-> kept[i].text,
            date |-> kept[i].created_at, dated |-> kept[i].dated,
            path |-> "created_at"]]

\* the tweets pushed from <p> blocks, dated with the time of the run
tweetsOfBlocks(handle, blocks) ==
    [i \in 1..Len(blocks) |->
       [source |-> handle, text |-> stripHtml1(blocks[i]),
        date |-> nowISOString, dated |-> FALSE, path |-> "none"]]

\* the list `tweets` of fetchViaSyndication after both extraction steps
tweetsOfPage(handle, page) ==
    LET fromJson == IF page.next \in {"data", "noTimeline"}
                    THEN tweetsOfJson(handle, page) ELSE <<>>
    IN  IF Len(fromJson) = 0 THEN tweetsOfBlocks(handle, page.blocks) ELSE fromJson

\* whether fetchViaSyndication hands over to fetchViaSearchSyndication after
\* outcome o of its own endpoint: on "!resp.ok", in the catch block, and when
\* `tweets` is empty
callsSearchSyndication(o) == o.kind # "items"

\* how fetchViaSyndication goes on after the outcome o of its fetch: it
\* returns the search fallback's list, or its own
syndicationOutcome(h, o) ==
    IF callsSearchSyndication(o)
    THEN Advance(h, o)
    ELSE Return(h, o, o.items)

\* the timeline endpoint (method A) is answered for handle h
fetchViaSyndication(h) ==
    /\ rev = "rev1"
    /\ h \in Range(Handles)
    /\ pc[h] = "fetch"
    /\ strat[h] = 1
    /\ \/ syndicationOutcome(h, Failed)
          \* Failed: fetch throws or the status is not ok
       \/ \E o \in {Answered(tweetsOfPage(h, page)) : page \in SyndPages} :
            syndicationOutcome(h, o)
    /\ UNCHANGED <<settled, call, run, rev, hpc, acc, twitterResults, allItems, errors>>

\* the backup endpoint (method B) is answered for handle h
fetchViaSearchSyndication(h) ==
    /\ rev = "rev1"
    /\ h \in Range(Handles)
    /\ pc[h] = "fetch"
    /\ strat[h] = 2
    /\ \/ Return(h, Failed, <<>>)
       \/ \E texts \in {tweetsOfBlocks(h, page) : page \in SearchPages} :
            Return(h, Answered(texts), texts)
    /\ UNCHANGED <<settled, call, run, rev, hpc, acc, twitterResults, allItems, errors>>

-----------------------------------------------------------------------------
(* first revision: fetchQuiverQuantData *)

\* an element of the embedded JSON array
QuiverJsonItems == [Representative : {"Pelosi"}, TransactionDate : {NoDate, StaleDate}]

\* a <tr> of the page: its cells
HeaderRow == <<"Politician", "Ticker", "Type">>
QuiverRows == {<<"Pelosi", "NVDA", "BUY">>, <<"Pelosi">>}

\* the page: the script that mentions congressTrading ("none", "bad": its
\* array is not JSON, "data") and the table rows
QuiverPages ==
    [json : {"none", "bad"}, data : {<<>>},
     rows : {<<>>} \cup {<<HeaderRow, HeaderRow, r>> : r \in QuiverRows}]
    \cup [json : {"data"}, data : SeqUpTo(QuiverJsonItems, MaxEntries),
          rows : {<<>>, <<HeaderRow, HeaderRow, <<"Pelosi", "NVDA", "BUY">> >>}]

\* a cell read as a date string
cellDate(c) == IF c = "" THEN NoDate ELSE BadDate

quiverOfJsonItem(item) ==
    [source |-> "QuiverQuant",
     text |-> <<"Congress trade:", item.Representative, "-", "Unknown", "?", "?">>,
     date |-> OrDate(item.TransactionDate, nowISOString),
     dated |-> Known(item.TransactionDate), path |-> "TransactionDate"]

quiverOfRow(cells) ==
    [source |-> "QuiverQuant",
     text |-> <<"Congress trade:">> \o cells,
     date |-> OrDate(cellDate(cells[1]), nowISOString),
     dated |-> Known(cellDate(cells[1])), path |-> "cell"]

\* the trades of the embedded array: data.slice(0, 20)
quiverOfJson(page) ==
    IF page.json # "data" THEN <<>>
    ELSE LET d == slice(page.data, 20)
         IN  [i \in 1..Len(d) |-> quiverOfJsonItem(d[i])]

\* the trades of the table: the first two rows are skipped, at most 20 are
\* read, and a row needs three cells
quiverOfRows(page) ==
    LET body == SubSeq(page.rows, 3, Min(Len(page.rows), 22))
        kept == SelectSeq(body, LAMBDA cells : Len(cells) >= 3)
    IN  [i \in 1..Len(kept) |-> quiverOfRow(kept[i])]

quiverOfPage(page) ==
    LET trades == quiverOfJson(page)
    IN  IF Len(trades) = 0 THEN quiverOfRows(page) ELSE trades

fetchQuiverQuantData ==
    LET s == "QuiverQuant" IN
    /\ rev = "rev1"
    /\ pc[s] = "fetch"
    /\ \/ Return(s, Failed, <<>>)
       \/ \E out \in {quiverOfPage(page) : page \in QuiverPages} :
            Return(s, Answered(out), out)
    /\ UNCHANGED <<settled, call, run, rev, hpc, acc, twitterResults, allItems, errors>>

-----------------------------------------------------------------------------
(* first revision: gatherAllData *)

\* gatherAllData is called: every source function runs to its first await
gatherAllDataRev1 ==
    /\ rev = "rev1"
    /\ hpc = "start"
    /\ hpc' = "gathering"
    /\ StartAll
    /\ UNCHANGED <<settled, call, run, rev, acc, res, last, nfail, twitterResults, allItems, errors>>

\* the inner Promise.allSettled over the handles resolves and its .then
\* callback runs: it builds `tweets` and pushes to the shared `errors`
twitterThen ==
    /\ rev = "rev1"
    /\ hpc = "gathering"
    /\ twitterResults.status = "pending"
    /\ \A h \in Range(Handles) : pc[h] = "done"
    /\ twitterResults' = Fulfilled(fulfilledValues(Handles, res))
    /\ errors' = errors \o rejectedLabels(Handles, res)
    /\ UNCHANGED <<settled, call, run, rev, hpc, pc, strat, acc, res, last, nfail, allItems>>

\* the promises of the outer Promise.allSettled, by label
outerResults ==
    [l \in {"Twitter (all)", "QuiverQuant", "Google News"} |->
        IF l = "Twitter (all)" THEN twitterResults ELSE res[l]]

\* the outer Promise.allSettled resolves: the three results are collected
gatherAllDataRev1Settled ==
    /\ rev = "rev1"
    /\ hpc = "gathering"
    /\ twitterResults.status # "pending"
    /\ pc["QuiverQuant"] = "done"
    /\ pc["Google News"] = "done"
    /\ hpc' = "gathered"
    /\ allItems' = fulfilledValues(<<"Twitter (all)", "QuiverQuant", "Google News">>, outerResults)
    /\ errors' = errors \o rejectedLabels(<<"Twitter (all)", "QuiverQuant", "Google News">>, outerResults)
    /\ UNCHANGED <<settled, call, run, rev, pc, strat, acc, res, last, nfail, twitterResults>>

-----------------------------------------------------------------------------
(* The specification *)

-----------------------------------------------------------------------------
(* The handler: the authorization check, and the steps after gathering *)

\* the sources that are fallback chains
Chains(r) ==
    CASE r = "rss" -> Range(Accounts)
      [] r = "rev1" -> Range(Handles)
      [] OTHER -> {}

\* how many fetches a source makes at most: its bridges, its two methods,
\* its queries, or its single page
NumStrategies(r, s) ==
    CASE r = "rss" -> NumBridges
      [] r = "rev1" /\ s \in Range(Handles) -> 2
      [] s = "Google News" -> NumQueries
      [] OTHER -> 1

\* every fetch of source s failed
Exhausted(s) == pc[s] = "done" /\ nfail[s] = NumStrategies(rev, s)

\* a request: whether CRON_SECRET is configured, and the authorization
\* header: absent, different from `Bearer ${CRON_SECRET}`, or equal to it
Requests == [secret : BOOLEAN, header : {"none", "wrong", "right"}]

\* variant: a request without the header is let through
unauthorizedOnlyWrong(rq) == rq.secret /\ rq.header = "wrong"

\* process.env.CRON_SECRET && req.headers["authorization"] !== `Bearer ${...}`
unauthorized(rq) == rq.secret /\ rq.header # "right"

\* how many addresses subscribers.json holds at most
MaxSubscribers == 2
BATCH_SIZE == 50

NoAnalysis == [from |-> "none", highAlerts |-> <<>>, otherTrades |-> <<>>]

\* variant: the template of the empty case carries a trade
FilledTemplate == [from |-> "template", highAlerts |-> <<>>, otherTrades |-> <<"trade">>]

\* analysis = { highAlerts: [], otherTrades: [], marketNote: "No ..." }
EmptyTemplate == [from |-> "template", highAlerts |-> <<>>, otherTrades |-> <<>>]

\* what JSON.parse of the service's reply may be
Replies ==
    {[from |-> "service", highAlerts |-> <<"alert">>, otherTrades |-> <<"trade">>]}

NoRun ==
    [req |-> <<>>, status |-> 0, cause |-> "none", analysisCalls |-> 0,
     analysis |-> NoAnalysis, built |-> FALSE, subscribersRead |-> FALSE,
     subscribers |-> 0, sends |-> 0, emailsSent |-> 0, allExhausted |-> FALSE,
     responses |-> 0]

\* variant: the response is sent without `return`
RespondAndGoOn(code, why, r) ==
    /\ hpc' = "analyzed"
    /\ run' = [r EXCEPT !.status = code, !.cause = why,
                        !.responses = r.responses + 1]

\* variant: a failure leaves the handler as an exception, without a response
RespondUnlessFailure(code, why, r) ==
    /\ hpc' = IF code = 500 THEN "thrown" ELSE "responded"
    /\ run' = [r EXCEPT !.status = code, !.cause = why,
                        !.responses = r.responses + (IF code = 500 THEN 0 ELSE 1)]

\* res.status(code).json(...) and return
Respond(code, why, r) ==
    /\ hpc' = "responded"
    /\ run' = [r EXCEPT !.status = code, !.cause = why,
                        !.responses = r.responses + 1]

\* the authorization check at the top of the handler
handlerAuth ==
    /\ hpc = "request"
    /\ IF unauthorized(run.req[1])
       THEN Respond(401, "auth", run)
       ELSE hpc' = "accepted" /\ UNCHANGED run
    /\ UNCHANGED <<settled, call, rev, pc, strat, acc, res, last, nfail, twitterResults,
                   allItems, errors>>

\* the handler enters its try block; the request is not read again
handlerTry ==
    /\ hpc = "accepted"
    /\ hpc' = "start"
    /\ run' = [run EXCEPT !.req = <<>>]
    /\ UNCHANGED <<settled, call, rev, pc, strat, acc, res, last, nfail, twitterResults,
                   allItems, errors>>

\* variant: the analysis service is called for an empty list too
skipsAnalysisNever(items) == FALSE

\* if (allItems.length === 0)
skipsAnalysis(items) == Len(items) = 0

\* the orchestrator has returned { allItems, errors }: its promises and the
\* locals of the source functions are out of reach
SourcesGone ==
    /\ pc' = [s \in Sources(rev) |-> "idle"]
    /\ strat' = [s \in Sources(rev) |-> 0]
    /\ acc' = [s \in Sources(rev) |-> <<>>]
    /\ res' = [s \in Sources(rev) |-> Pending]
    /\ last' = [s \in Sources(rev) |-> NoOutcome]
    /\ nfail' = [s \in Sources(rev) |-> 0]
    /\ twitterResults' = Pending

\* STEP 2: the empty template, or analyzeWithGemini, which throws when the
\* service fails or its reply is not JSON
handlerAnalysis ==
    /\ hpc = "gathered"
    /\ SourcesGone
    /\ LET r == [run EXCEPT !.allExhausted = \A s \in Sources(rev) : Exhausted(s)]
       IN  IF skipsAnalysis(allItems)
           THEN /\ hpc' = "analyzed"
                /\ run' = [r EXCEPT !.analysis = EmptyTemplate]
           ELSE \/ Respond(500, "analysis", [r EXCEPT !.analysisCalls = 1])
                \/ \E a \in Replies :
                     /\ hpc' = "analyzed"
                     /\ run' = [r EXCEPT !.analysisCalls = 1, !.analysis = a]
    /\ UNCHANGED <<settled, call, rev, allItems, errors>>

\* STEP 3
buildEmailHtml ==
    /\ hpc = "analyzed"
    /\ hpc' = "built"
    /\ run' = [run EXCEPT !.built = TRUE]
    /\ UNCHANGED <<settled, call, rev, pc, strat, acc, res, last, nfail, twitterResults,
                   allItems, errors>>

\* variant: the send step is entered whatever the length of the list
noSubscribersNever(n) == FALSE

\* !subscribers || subscribers.length === 0
noSubscribers(n) == n = 0

\* STEP 4: subscribers.json is read and parsed
loadSubscribers ==
    /\ hpc = "built"
    /\ LET r == [run EXCEPT !.subscribersRead = TRUE]
       IN  \/ Respond(500, "subscribers", r)
           \/ \E n \in 0..MaxSubscribers :
                IF noSubscribers(n)
                THEN Respond(200, "none", r)
                ELSE /\ hpc' = "loaded"
                     /\ run' = [r EXCEPT !.subscribers = n]
    /\ UNCHANGED <<settled, call, rev, pc, strat, acc, res, last, nfail, twitterResults,
                   allItems, errors>>

\* the batches of n addresses: how many, and the size of the i-th
numBatches(n) == (n + BATCH_SIZE - 1) \div BATCH_SIZE
batchSize(n, i) == Min(BATCH_SIZE, n - (i - 1) * BATCH_SIZE)

\* emailResults.filter(r => r.success).reduce((sum, r) => sum + r.count, 0)
totalSent(n, oks) ==
    LET F[i \in 0..Len(oks)] ==
            IF i = 0 THEN 0
            ELSE F[i - 1] + (IF oks[i] THEN batchSize(n, i) ELSE 0)
    IN  F[Len(oks)]

\* sendNewsletter: it throws (to the handler's catch) or returns one result
\* per batch
sendNewsletter ==
    /\ hpc = "loaded"
    /\ \/ Respond(500, "send", run)
       \/ \E oks \in [1..numBatches(run.subscribers) -> BOOLEAN] :
            /\ hpc' = "sent"
            /\ run' = [run EXCEPT !.sends = Len(oks),
                                  !.emailsSent = totalSent(run.subscribers, oks)]
    /\ UNCHANGED <<settled, call, rev, pc, strat, acc, res, last, nfail, twitterResults,
                   allItems, errors>>

\* return res.status(200).json({ success: true, ... })
handlerRespond ==
    /\ hpc = "sent"
    /\ Respond(200, "none", run)
    /\ UNCHANGED <<settled, call, rev, pc, strat, acc, res, last, nfail, twitterResults,
                   allItems, errors>>

\* the parser's timeout of 10 seconds passes: parseURL throws
parserTimeout(h) ==
    /\ rev = "rss"
    /\ pc[h] = "fetch"
    /\ IF hasNextBridge(strat[h]) THEN Advance(h, Failed) ELSE Return(h, Failed, <<>>)
    /\ UNCHANGED <<settled, call, run, rev, hpc, acc, twitterResults, allItems, errors>>

Init ==
    /\ rev \in Revisions
    /\ hpc = "request"
    /\ run \in {[NoRun EXCEPT !.req = <<rq>>] : rq \in Requests}
    /\ settled = <<>>
    /\ pc = [s \in Sources(rev) |-> "idle"]
    /\ strat = [s \in Sources(rev) |-> 0]
    /\ acc = [s \in Sources(rev) |-> <<>>]
    /\ res = [s \in Sources(rev) |-> Pending]
    /\ last = [s \in Sources(rev) |-> NoOutcome]
    /\ nfail = [s \in Sources(rev) |-> 0]
    /\ twitterResults = Pending
    /\ allItems = <<>>
    /\ errors = <<>>
    /\ call = NoCall

Next ==
    \/ handlerAuth
    \/ handlerTry
    \/ handlerAnalysis
    \/ buildEmailHtml
    \/ loadSubscribers
    \/ sendNewsletter
    \/ handlerRespond
    \/ \E h \in Sources(rev) : parserTimeout(h)
    \/ scrapeAllAccounts
    \/ \E h \in Sources(rev) : scrapeTweets(h)
    \/ scrapeAllAccountsSettled
    \/ gatherAllData
    \/ fetchQuiverQuantTrades
    \/ fetchQuiverQuantInsiders
    \/ fetchGoogleNewsRSS
    \/ fetchCapitolTrades
    \/ gatherAllDataSettled
    \/ gatherAllDataRev1
    \/ \E h \in Sources(rev) : fetchViaSyndication(h)
    \/ \E h \in Sources(rev) : fetchViaSearchSyndication(h)
    \/ fetchQuiverQuantData
    \/ twitterThen
    \/ gatherAllDataRev1Settled

Spec == Init /\ [][Next]_vars

\* the steps of the program itself are taken when they can be; the answer of
\* an endpoint is not: it may never come
Fairness ==
    /\ WF_vars(handlerAuth) /\ WF_vars(handlerTry)
    /\ WF_vars(scrapeAllAccounts) /\ WF_vars(scrapeAllAccountsSettled)
    /\ WF_vars(gatherAllData) /\ WF_vars(gatherAllDataSettled)
    /\ WF_vars(gatherAllDataRev1) /\ WF_vars(twitterThen)
    /\ WF_vars(gatherAllDataRev1Settled)
    /\ WF_vars(handlerAnalysis) /\ WF_vars(buildEmailHtml)
    /\ WF_vars(loadSubscribers) /\ WF_vars(sendNewsletter)
    /\ WF_vars(handlerRespond)
    /\ \A h \in Range(Accounts) : WF_vars(parserTimeout(h))

SpecLive == Spec /\ Fairness

\* every external call settles (an endpoint answers or fails, the analysis
\* service and the mail service return or throw) and the program takes its
\* steps: some step is taken whenever one can be
SpecSettle == Spec /\ WF_vars(Next)


-----------------------------------------------------------------------------
(* The parsing functions on their own, on payloads longer and more varied
   than the ones that travel through the orchestrators *)

\* how many items the dedup loop is given, and how many <item> blocks one
\* news query returns
MaxDedupLen == 3
MaxNewsItems == 2

\* headlines that agree, case aside, in their first 55 characters (LongA,
\* LongB), in their first 60 (LongerA, LongerB: all four agree in 55), or
\* only in their first 50 (LongC)
LongA == Rep("A", 55) \o <<"x">>
LongB == Rep("a", 55) \o <<"y">>
LongC == Rep("a", 50) \o <<"z">>
LongerA == Rep("A", 60) \o <<"x">>
LongerB == Rep("a", 60) \o <<"y">>

\* the items the loop of fetchGoogleNewsRSS may be given
DedupItems ==
    [source : {"News"}, text : {LongA, LongB, LongC, <<"H">>, <<"h">>},
     date : {EdgeDate}, dated : {TRUE}, path : {"pubDate"}]

\* the dedup loop of the running revision is given a list
dedupCall ==
    /\ rev \in {"rev1", "rev2"}
    /\ call = NoCall
    /\ \E items \in SeqUpTo(DedupItems, MaxDedupLen) :
         call' = [fn |-> "dedup", input |-> items,
                  output |-> dedup(items, dedupPrefix(rev))]
    /\ UNCHANGED <<settled, run, rev, hpc, pc, strat, acc, res, last, nfail, twitterResults,
                   allItems, errors>>

\* the loop is given its own output
dedupAgain ==
    /\ call.fn = "dedup"
    /\ call' = [fn |-> "dedup again", input |-> call.output,
                output |-> dedup(call.output, dedupPrefix(rev))]
    /\ UNCHANGED <<settled, run, rev, hpc, pc, strat, acc, res, last, nfail, twitterResults,
                   allItems, errors>>

\* the <item> blocks of the two news feeds
LongNewsEntries ==
    [title : {LongA, LongB, LongerA, LongerB}, pubDate : {EdgeDate}, desc : {<<>>}]
    \cup [title : {LongA}, pubDate : {StaleDate}, desc : {<<>>}]

\* fetchGoogleNewsRSS as a whole, both queries answered: `items` is the list
\* before the dedup loop
newsCall ==
    /\ rev \in {"rev1", "rev2"}
    /\ call = NoCall
    /\ \E xml1 \in SeqUpTo(LongNewsEntries, MaxNewsItems),
          xml2 \in SeqUpTo(LongNewsEntries, 1) :
         LET items == newsOfXml(rev, xml1) \o newsOfXml(rev, xml2)
         IN  call' = [fn |-> "fetchGoogleNewsRSS", input |-> <<xml1, xml2>>,
                      oks |-> <<TRUE, TRUE>>,
                      items |-> items, output |-> newsReturn(rev, items)]
    /\ UNCHANGED <<settled, run, rev, hpc, pc, strat, acc, res, last, nfail, twitterResults,
                   allItems, errors>>

\* how many <item> blocks the feed of one query holds at most
MaxHeadlines == 8

\* the i-th headline of the day, and a feed of n of them from the k-th on,
\* followed by an <item> of the day before
headlineEntry(i) == [title |-> Rep("a", i), pubDate |-> EdgeDate, desc |-> <<>>]
HeadlineFeed(k, n) ==
    [i \in 1..n |-> headlineEntry(k + i)]
    \o <<[title |-> HeadlineA, pubDate |-> StaleDate, desc |-> <<>>]>>

\* variant: one try block around the loop, a failed query discards the list
newsItemsAllOrNothing(r, xmls, oks) ==
    IF \A q \in DOMAIN xmls : oks[q]
    THEN Flatten([q \in DOMAIN xmls |-> newsOfXml(r, xmls[q])])
    ELSE <<>>

\* `items` after the loop over the queries: a query that is not ok (the
\* status is not ok, or fetch throws into the catch block of the pass) pushes
\* nothing, and the loop goes on with the next query
newsItems(r, xmls, oks) ==
    Flatten([q \in DOMAIN xmls |-> IF oks[q] THEN newsOfXml(r, xmls[q]) ELSE <<>>])

\* fetchGoogleNewsRSS as a whole, each query answered or failed
newsQueriesCall ==
    /\ rev \in {"rev1", "rev2"}
    /\ call = NoCall
    /\ \E n1, n2 \in 0..MaxHeadlines, k \in {0, MaxHeadlines}, oks \in [1..NumQueries -> BOOLEAN] :
         LET xmls == <<HeadlineFeed(0, n1), HeadlineFeed(k, n2)>>
             items == newsItems(rev, xmls, oks)
         IN  call' = [fn |-> "fetchGoogleNewsRSS", input |-> xmls, oks |-> oks,
                      items |-> items, output |-> newsReturn(rev, items)]
    /\ UNCHANGED <<settled, run, rev, hpc, pc, strat, acc, res, last, nfail, twitterResults,
                   allItems, errors>>

\* how many "Congress Trade:" blocks the page of a parsing call holds
MaxArticles == 2

\* what each of the three trade patterns finds in a block
MdMatches == {[type |-> "Purchase", ticker |-> "NVDA"]}
HtmlMatches == {[type |-> "Sale", ticker |-> "AAPL"]}
PlainMatches == {[type |-> "Purchase", ticker |-> "TSLA"]}

\* blocks in which any of the patterns may match, with and without a header
\* the name pattern matches
MixedArticles ==
    [role : {"Representative"}, name : {"Pelosi", "Tuberville"}, date : {StaleDate},
     md : SeqUpTo(MdMatches, 1), html : SeqUpTo(HtmlMatches, 1),
     plain : SeqUpTo(PlainMatches, 1)]
    \cup [role : {""}, name : {""}, date : {NoDate},
          md : SeqUpTo(MdMatches, 1), html : SeqUpTo(HtmlMatches, 1),
          plain : SeqUpTo(PlainMatches, 1)]

\* the objects pushed for the matches ms of one pattern in article a
tradesOfMatches(a, ms) == [i \in 1..Len(ms) |-> tradeOfMatch(a, ms[i])]

\* what the k-th pass of the loop over the articles appends to `trades`
pushedForArticle(page, k) ==
    LET before == tradesLoop(<<>>, SubSeq(page, 1, k - 1))
        after == tradesOfArticle(before, page[k])
    IN  SubSeq(after, Len(before) + 1, Len(after))

\* the parsing part of fetchQuiverQuantTrades: `steps` is what each article
\* added
tradesCall ==
    /\ rev = "rev2"
    /\ call = NoCall
    /\ \E page \in SeqUpTo(MixedArticles, MaxArticles) :
         call' = [fn |-> "fetchQuiverQuantTrades", input |-> page,
                  steps |-> [k \in 1..Min(Len(page), 15) |-> pushedForArticle(page, k)],
                  output |-> quiverTradesOfPage(page)]
    /\ UNCHANGED <<settled, run, rev, hpc, pc, strat, acc, res, last, nfail, twitterResults,
                   allItems, errors>>

\* the parsing part of fetchViaSyndication: `tweets` after both steps
syndicationCall ==
    /\ rev = "rev1"
    /\ call = NoCall
    /\ \E page \in SyndPages :
         call' = [fn |-> "fetchViaSyndication", input |-> page,
                  output |-> tweetsOfPage(Handles[1], page)]
    /\ UNCHANGED <<settled, run, rev, hpc, pc, strat, acc, res, last, nfail, twitterResults,
                   allItems, errors>>

\* the parsing part of fetchQuiverQuantData
quiverDataCall ==
    /\ rev = "rev1"
    /\ call = NoCall
    /\ \E page \in QuiverPages :
         call' = [fn |-> "fetchQuiverQuantData", input |-> page,
                  output |-> quiverOfPage(page)]
    /\ UNCHANGED <<settled, run, rev, hpc, pc, strat, acc, res, last, nfail, twitterResults,
                   allItems, errors>>

\* how many rows the Capitol Trades page of a parsing call holds, and how
\* many entries the timeline of a parsing call holds
MaxRows == 2

\* the object JSON.parse hands to extractTweetsFromSyndicationData: without
\* props.pageProps ("noProps"), without a timeline ("noTimeline"), with a
\* timeline that is not an array ("notArray"), or with entries, some without
\* a text
SyndData ==
    [next : {"noProps", "noTimeline", "notArray"}, timeline : {<<>>}]
    \cup [next : {"data"}, timeline : SeqUpTo(TimelineEntries, MaxRows)]

extractCall ==
    /\ rev = "rev1"
    /\ call = NoCall
    /\ \E data \in SyndData :
         call' = [fn |-> "extractTweetsFromSyndicationData", input |-> data,
                  output |-> extractTweetsFromSyndicationData(data)]
    /\ UNCHANGED <<settled, run, rev, hpc, pc, strat, acc, res, last, nfail, twitterResults,
                   allItems, errors>>

\* rows as CapitolRows, and rows in which the issuer pattern does not match:
\* ticker is "" and company is "Unknown"
BrokenCapitolRows ==
    CapitolRows
    \cup [politician : {"Pelosi", ""}, ticker : {""}, company : {"Unknown"},
          tradeDate : {StaleDate}]

\* the parsing part of fetchCapitolTrades
capitolCall ==
    /\ rev = "rev2"
    /\ call = NoCall
    /\ \E page \in SeqUpTo(BrokenCapitolRows, MaxRows) :
         call' = [fn |-> "fetchCapitolTrades", input |-> page,
                  output |-> capitolOfPage(page)]
    /\ UNCHANGED <<settled, run, rev, hpc, pc, strat, acc, res, last, nfail, twitterResults,
                   allItems, errors>>

\* how many addresses the subscriber list of a parsing call holds at most:
\* one more than a full batch
MaxAddresses == 51

\* addresses are numbered from 1; 0 is "Political Alpha <onboarding@resend.dev>"
Sender == 0
SubscriberLists == {[i \in 1..n |-> i] : n \in 0..MaxAddresses}

\* batches.push(subscriberEmails.slice(i, i + BATCH_SIZE)) for i = 0, 50, ...
batchesOf(list) ==
    [i \in 1..numBatches(Len(list)) |->
        SubSeq(list, (i - 1) * BATCH_SIZE + 1, Min(i * BATCH_SIZE, Len(list)))]

\* the `to` and `bcc` of resend.emails.send for one batch: src/cron.js puts
\* every batch in bcc; both revisions of src/api/cron.js put a batch of one
\* address in `to` and leave bcc undefined
sendArgs(r, batch) ==
    IF r = "rss" THEN [to |-> <<Sender>>, bcc |-> batch]
    ELSE [to |-> IF Len(batch) = 1 THEN <<batch[1]>> ELSE <<Sender>>,
          bcc |-> IF Len(batch) > 1 THEN batch ELSE <<>>]

\* what a send call may do: return data, return an error value, or throw
SendOutcomes == {"ok", "error", "throw"}

\* how many batches are attempted: src/cron.js has no try/catch around the
\* send call, so its loop ends at the first one that throws
attempted(r, outs) ==
    IF r = "rss" /\ \E i \in DOMAIN outs : outs[i] = "throw"
    THEN CHOOSE i \in DOMAIN outs :
            outs[i] = "throw" /\ \A j \in 1..(i - 1) : outs[j] # "throw"
    ELSE Len(outs)

\* variant: a success entry is pushed whatever the send call did
resultOfAlwaysSuccess(out, batch) == [success |-> TRUE, count |-> Len(batch)]

\* the entry pushed to `results` for one batch; an error entry has no count
\* (0 here, it is never read)
resultOf(out, batch) ==
    IF out = "ok" THEN [success |-> TRUE, count |-> Len(batch)]
    ELSE [success |-> FALSE, count |-> 0]

\* emailResults.filter(r => r.success).reduce((sum, r) => sum + r.count, 0),
\* as the handler computes it from the list sendNewsletter returned
RECURSIVE totalSentOf(_)
totalSentOf(results) ==
    IF results = <<>> THEN 0
    ELSE (IF Head(results).success THEN Head(results).count ELSE 0)
         + totalSentOf(Tail(results))

\* sendNewsletter on its own: the send calls it makes, the results it
\* collects, whether it rejects, and the total the handler reports from them
sendNewsletterCall ==
    /\ call = NoCall
    /\ \E list \in SubscriberLists :
         \E outs \in [1..numBatches(Len(list)) -> SendOutcomes] :
            LET batches == batchesOf(list)
                made == attempted(rev, outs)
                rejects == rev = "rss" /\ \E i \in DOMAIN outs : outs[i] = "throw"
                kept == IF rejects THEN made - 1 ELSE made
                results == [i \in 1..kept |-> resultOf(outs[i], batches[i])]
            IN  call' = [fn |-> "sendNewsletter", input |-> list, outs |-> outs,
                         calls |-> [i \in 1..made |-> sendArgs(rev, batches[i])],
                         rejects |-> rejects,
                         output |-> results,
                         totalSent |-> IF rejects THEN 0 ELSE totalSentOf(results)]
    /\ UNCHANGED <<settled, run, rev, hpc, pc, strat, acc, res, last, nfail, twitterResults,
                   allItems, errors>>

\* feed entries as FeedEntries, and recent entries without contentSnippet,
\* content and title, or whose content is markup only
BareFeedEntries ==
    FeedEntries
    \cup [pubDate : {EdgeDate}, content : {<<>>, <<"<b>", "</b>">>, <<" ">>}]

\* the parsing part of scrapeTweets for a bridge that answered
scrapeTweetsCall ==
    /\ rev = "rss"
    /\ call = NoCall
    /\ \E feed \in SeqUpTo(BareFeedEntries, MaxRows) :
         call' = [fn |-> "scrapeTweets", input |-> feed,
                  output |-> scrapeTweetsReturn(Accounts[1], feed)]
    /\ UNCHANGED <<settled, run, rev, hpc, pc, strat, acc, res, last, nfail, twitterResults,
                   allItems, errors>>

\* <p> blocks with a text, with markup only, and with nothing
BareBlocks == {TweetHtml, <<"<b>", "</b>">>, <<>>}

\* the <p> blocks step of fetchViaSyndication and of fetchViaSearchSyndication
blocksCall ==
    /\ rev = "rev1"
    /\ call = NoCall
    /\ \E blocks \in SeqUpTo(BareBlocks, MaxRows) :
         call' = [fn |-> "fetchViaSearchSyndication", input |-> blocks,
                  output |-> tweetsOfBlocks(Handles[1], blocks)]
    /\ UNCHANGED <<settled, run, rev, hpc, pc, strat, acc, res, last, nfail, twitterResults,
                   allItems, errors>>

NextParse ==
    \/ scrapeTweetsCall
    \/ blocksCall
    \/ sendNewsletterCall
    \/ extractCall
    \/ capitolCall
    \/ newsQueriesCall
    \/ dedupCall
    \/ dedupAgain
    \/ newsCall
    \/ tradesCall
    \/ syndicationCall
    \/ quiverDataCall

\* the functions are called outside a handler invocation
InitParse == Init /\ run.req = <<[secret |-> FALSE, header |-> "none"]>>

SpecParse == InitParse /\ [][NextParse]_vars

-----------------------------------------------------------------------------
(* The merge on its own: the source promises settle in any order, each with
   a list of distinct items, and the orchestrator collects the results *)

MaxReturned == 2

\* the i-th item a source returns: items of one source differ in their text
returnedItem(s, i) ==
    [source |-> ItemSource(rev, s), text |-> Rep("a", i),
     date |-> EdgeDate, dated |-> TRUE, path |-> "pubDate"]

ReturnLists(s) == {[i \in 1..n |-> returnedItem(s, i)] : n \in 0..MaxReturned}

\* the promise of source s settles: every source function catches what its
\* fetches throw and returns the list it built
sourceSettles(s) ==
    /\ hpc = "gathering"
    /\ pc[s] = "fetch"
    /\ \E v \in ReturnLists(s) : Return(s, Answered(v), v)
    /\ settled' = Append(settled, s)
    /\ UNCHANGED <<call, run, rev, hpc, acc, twitterResults, allItems, errors>>

\* the orchestrator has called every source function and awaits allSettled
InitMerge ==
    /\ rev \in Revisions
    /\ hpc = "gathering"
    /\ run = NoRun
    /\ settled = <<>>
    /\ pc = [s \in Sources(rev) |-> "fetch"]
    /\ strat = [s \in Sources(rev) |-> 1]
    /\ acc = [s \in Sources(rev) |-> <<>>]
    /\ res = [s \in Sources(rev) |-> Pending]
    /\ last = [s \in Sources(rev) |-> NoOutcome]
    /\ nfail = [s \in Sources(rev) |-> 0]
    /\ twitterResults = Pending
    /\ allItems = <<>>
    /\ errors = <<>>
    /\ call = NoCall

NextMerge ==
    \/ \E s \in Sources(rev) : sourceSettles(s)
    \/ scrapeAllAccountsSettled
    \/ gatherAllDataSettled
    \/ twitterThen
    \/ gatherAllDataRev1Settled

SpecMerge == InitMerge /\ [][NextMerge]_vars

-----------------------------------------------------------------------------
(* Vocabulary of the properties *)

Gathered == hpc = "gathered"

\* source s returned an empty list although an endpoint of it answered
ValidEmpty(s) == pc[s] = "done" /\ res[s].value = <<>> /\ nfail[s] < NumStrategies(rev, s)

\* the items of source s in a list, and how often a label is in a list
ItemsOf(s, list) == SelectSeq(list, LAMBDA it : it.source = ItemSource(rev, s))
Count(l, list) == Cardinality({i \in DOMAIN list : list[i] = l})

\* the place of x in a list without repetitions
Pos(list, x) == CHOOSE i \in DOMAIN list : list[i] = x

\* every item of source a stands before every item of source b in the list
AllBefore(a, b, list) ==
    \A i, j \in DOMAIN list :
        (list[i].source = ItemSource(rev, a) /\ list[j].source = ItemSource(rev, b))
            => i < j

\* every source promise has settled, and the order they settled in is known
AllSettled == Range(settled) = Sources(rev)

\* the lists the sources returned, one after the other in declared order
InDeclaredOrder == Flatten([i \in DOMAIN Order(rev) |-> res[Order(rev)[i]].value])

\* the subscriber addresses one send call is addressed to, in `to` or in bcc
addressed(c) == SelectSeq(c.to \o c.bcc, LAMBDA a : a # Sender)

\* now - 24h <= timestamp <= now
InWindow(d) == Now - TWENTY_FOUR_HOURS_MS <= d.ms /\ d.ms <= Now

\* no two items of the list share the key of length n
NoSharedKey(list, n) ==
    \A i, j \in DOMAIN list : i # j => keyOf(list[i], n) # keyOf(list[j], n)

-----------------------------------------------------------------------------
(* Properties *)

\* C1 (as claimed): once the orchestrator returns, a source whose every
\* strategy failed has its label in `errors` exactly once and no item in the
\* merged list.
C1_ExhaustedSourceIsReported ==
    Gathered =>
        \A s \in Sources(rev) :
            Exhausted(s) => Count(s, errors) = 1 /\ ItemsOf(s, allItems) = <<>>

\* C2: in both fallback chains, as soon as a strategy has answered with a
\* non-empty list the chain has returned exactly that list, so that no later
\* strategy of the chain is invoked.
C2_NonEmptyAnswerEndsChain ==
    \A h \in Chains(rev) :
        last[h].kind = "items" =>
            /\ pc[h] = "done"
            /\ res[h] = Fulfilled(last[h].items)

C2_Witness ==
    /\ rev = "rss"
    /\ Gathered
    /\ \E h \in Chains(rev) :
         /\ last[h].kind = "items"
         /\ strat[h] = 2
         /\ nfail[h] = 1
         /\ ItemsOf(h, allItems) = last[h].items

\* C3: in scrapeTweets the bridges are tried in declared order, one after a
\* failure of the one before and never more than NumBridges of them: after a
\* failure of bridge k < NumBridges the call awaits bridge k + 1, and after
\* the failure of the last bridge it has resolved to the empty list.
C3_FailedBridgeTriesNext ==
    rev = "rss" =>
        \A h \in Range(Accounts) :
            /\ strat[h] <= NumBridges
            /\ pc[h] = "fetch" => nfail[h] = strat[h] - 1
            /\ last[h].kind = "fail" =>
                 IF nfail[h] < NumBridges
                 THEN pc[h] = "fetch" /\ strat[h] = nfail[h] + 1
                 ELSE pc[h] = "done" /\ res[h] = Fulfilled(<<>>) /\ strat[h] = NumBridges

C3_Witness ==
    /\ rev = "rss"
    /\ Gathered
    /\ \E h \in Range(Accounts) :
         /\ nfail[h] = NumBridges
         /\ res[h] = Fulfilled(<<>>)
         /\ errors = <<>>

\* C4 (as claimed): in both fallback chains a strategy that answered with
\* zero items ends the chain with the empty list.
C4_EmptyAnswerEndsEveryChain ==
    \A h \in Chains(rev) :
        last[h].kind = "empty" => pc[h] = "done" /\ res[h] = Fulfilled(<<>>)

\* C4 (amended): in scrapeTweets a bridge that answered with zero recent
\* items ends the chain with the empty list; fetchViaSyndication never
\* returns an empty list of its own: after a page without tweets it calls
\* fetchViaSearchSyndication, whose answer (empty or not) is what is returned.
C4_EmptyAnswerEndsRssChain ==
    /\ rev = "rss" =>
         \A h \in Range(Accounts) :
             last[h].kind = "empty" =>
                 pc[h] = "done" /\ res[h] = Fulfilled(<<>>) /\ nfail[h] = strat[h] - 1
    /\ rev = "rev1" =>
         \A h \in Range(Handles) :
             /\ pc[h] = "done" /\ strat[h] = 1 => last[h].kind = "items"
             /\ pc[h] = "fetch" /\ last[h].kind = "empty" => strat[h] = 2
             /\ pc[h] = "done" /\ strat[h] = 2 => res[h] = Fulfilled(last[h].items)

C4_Witness ==
    /\ rev = "rss"
    /\ Gathered
    /\ \E h \in Range(Accounts) :
         last[h].kind = "empty" /\ strat[h] < NumBridges /\ res[h] = Fulfilled(<<>>)

\* C5: once the orchestrator returns, whatever became of source A (every
\* strategy failed, an empty list, a promise not fulfilled), the items of any
\* other source B in the merged list are exactly the list B returned.
C5_OtherSourcesUnaffected ==
    Gathered =>
        \A a, b \in Sources(rev) :
            (a # b /\ (Exhausted(a) \/ res[a].value = <<>> \/ res[a].status # "fulfilled"))
                => ItemsOf(b, allItems) = res[b].value

C5_Witness ==
    /\ Gathered
    /\ \E a, b \in Sources(rev) :
         a # b /\ Exhausted(a) /\ res[b].value # <<>> /\ ItemsOf(b, allItems) = res[b].value

\* C6: once the orchestrator returns, a source that answered with zero
\* items has no item in the merged list and no entry in `errors`; when every
\* source did so, both lists are empty.
C6_ValidEmptyAddsNothing ==
    Gathered =>
        /\ \A s \in Sources(rev) :
             ValidEmpty(s) => ItemsOf(s, allItems) = <<>> /\ Count(s, errors) = 0
        /\ (\A s \in Sources(rev) : ValidEmpty(s)) => allItems = <<>> /\ errors = <<>>

C6_Witness ==
    /\ Gathered
    /\ \A s \in Sources(rev) : ValidEmpty(s) /\ last[s].kind = "empty"
    /\ allItems = <<>>
    /\ errors = <<>>

\* C7 (as claimed): the result of a run in which every source failed on
\* every strategy differs from the result of a run of healthy empty answers,
\* which is items = [] with errors = []: its `errors` is not empty.
C7_TotalFailureIsVisible ==
    (Gathered /\ \A s \in Sources(rev) : Exhausted(s)) => errors # <<>>

\* C8 (as claimed): every item of the merged list whose date is parseable
\* lies within the last 24 hours.
C8_KnownTimestampInWindow ==
    \A i \in DOMAIN allItems :
        Known(allItems[i].date) => InWindow(allItems[i].date)

\* C9 (as claimed): no item whose date was read from an RSS pubDate, a
\* Google News pubDate or a created_at of the syndication JSON reaches the
\* merged list without a parseable timestamp of its own.
C9_MissingTimestampNeverFresh ==
    \A i \in DOMAIN allItems :
        allItems[i].path \in {"pubDate", "created_at"} => allItems[i].dated

PrefixKey(text, n) ==
    IF Len(text) < n THEN toLowerCase(text) ELSE SubSeq(toLowerCase(text), 1, n)

\* the subsequence of a list at the positions in `keep`
Pick(list, keep) ==
    LET F[i \in 0..Len(list)] ==
            IF i = 0 THEN <<>>
            ELSE IF i \in keep THEN Append(F[i - 1], list[i]) ELSE F[i - 1]
    IN  F[Len(list)]

\* the first item of each key, in arrival order
FirstOfEachKey(list, n) ==
    Pick(list, {i \in DOMAIN list :
                  \A j \in 1..(i - 1) : PrefixKey(list[j].text, n) # PrefixKey(list[i].text, n)})

\* C11: what the dedup loop returns is, for every list, the subsequence
\* that keeps in arrival order exactly the first item of each key.
C11_DedupIsFirstOfEachKey ==
    call.fn \in {"dedup", "dedup again"} =>
        call.output = FirstOfEachKey(call.input, dedupPrefix(rev))

C11_Witness ==
    /\ call.fn = "dedup"
    /\ Len(call.input) = 3
    /\ Len(call.output) = 2
    /\ call.input[1].text = LongA
    /\ call.input[3].text = LongB
    /\ call.output = <<call.input[1], call.input[2]>>

\* C12 (as claimed): when the news source yields two in-window items whose
\* texts agree, case aside, in their first 55 characters, the deduplicated
\* result is the first of them alone.
C12_SameFirst55GivesOne ==
    (/\ call.fn = "fetchGoogleNewsRSS"
     /\ Len(call.items) = 2
     /\ PrefixKey(call.items[1].text, 55) = PrefixKey(call.items[2].text, 55))
        => call.output = <<call.items[1]>>

\* C12 (amended): when the news source yields two in-window items whose
\* texts agree, case aside, in their first N characters (60 in the first
\* revision, 50 in the second), the deduplicated result is the first of them
\* alone; agreeing in the first 55 is enough in the second revision only.
C12_SameFirstNGivesOne ==
    (/\ call.fn = "fetchGoogleNewsRSS"
     /\ Len(call.items) = 2
     /\ \/ PrefixKey(call.items[1].text, dedupPrefix(rev))
             = PrefixKey(call.items[2].text, dedupPrefix(rev))
        \/ /\ rev = "rev2"
           /\ PrefixKey(call.items[1].text, 55) = PrefixKey(call.items[2].text, 55))
        => call.output = <<call.items[1]>>

C12_Witness ==
    /\ rev = "rev1"
    /\ call.fn = "fetchGoogleNewsRSS"
    /\ Len(call.items) = 2
    /\ call.items[1].text # call.items[2].text
    /\ PrefixKey(call.items[1].text, 60) = PrefixKey(call.items[2].text, 60)
    /\ call.output = <<call.items[1]>>

\* C13: the dedup loop applied to its own output returns that output.
C13_DedupIdempotent ==
    call.fn = "dedup again" => call.output = call.input

C13_Witness ==
    /\ call.fn = "dedup again"
    /\ Len(call.input) = 2
    /\ call.output = call.input

\* C14: the extraction patterns of a segment never double-count: what one
\* "Congress Trade:" article adds is the matches of its highest-priority
\* pattern that found any (markdown, then rendered HTML, then plain text) or
\* nothing at all; the timeline page yields the tweets of its embedded JSON
\* or, only when those are none, of its <p> blocks; the QuiverQuant page
\* yields the trades of its embedded array or, only when those are none, of
\* its table rows.
C14_OnePatternPerSegment ==
    /\ call.fn = "fetchQuiverQuantTrades" =>
         \A k \in DOMAIN call.steps :
            LET a == call.input[k]
                step == call.steps[k]
            IN  /\ a.md # <<>> => step = tradesOfMatches(a, a.md)
                /\ a.md = <<>> /\ a.html # <<>> =>
                      step \in {<<>>, tradesOfMatches(a, a.html)}
                /\ a.md = <<>> /\ a.html = <<>> =>
                      step \in {<<>>, tradesOfMatches(a, a.plain)}
    /\ call.fn = "fetchViaSyndication" =>
         LET fromJson == tweetsOfJson(Handles[1], call.input)
         IN  call.output = IF fromJson # <<>> THEN fromJson
                           ELSE tweetsOfBlocks(Handles[1], call.input.blocks)
    /\ call.fn = "fetchQuiverQuantData" =>
         LET fromJson == quiverOfJson(call.input)
         IN  call.output = IF fromJson # <<>> THEN fromJson
                           ELSE quiverOfRows(call.input)

C14_Witness ==
    /\ call.fn = "fetchQuiverQuantTrades"
    /\ Len(call.input) = 2
    /\ \A k \in 1..2 : /\ call.input[k].md # <<>>
                       /\ call.input[k].html # <<>>
                       /\ call.input[k].plain # <<>>
    /\ call.input[1].name # call.input[2].name
    /\ Len(call.output) = 2

\* C15: a payload without the expected structure yields nothing and a
\* malformed entry is skipped, the function returning its list all the same:
\* extractTweetsFromSyndicationData returns the empty list for data without
\* props, without a timeline or with a timeline that is not an array, and
\* otherwise exactly the entries that have a text; fetchQuiverQuantData takes
\* nothing from an embedded array that does not parse; fetchCapitolTrades
\* returns exactly the rows that have both a politician and a ticker.
C15_MalformedPayloadIsSkipped ==
    /\ call.fn = "extractTweetsFromSyndicationData" =>
         LET withText == Pick(call.input.timeline,
                              {i \in DOMAIN call.input.timeline :
                                 call.input.timeline[i].text # <<>>})
         IN  /\ call.input.next # "data" => call.output = <<>>
             /\ Len(call.output) = Len(withText)
             /\ \A i \in DOMAIN call.output : call.output[i].text = withText[i].text
    /\ call.fn = "fetchQuiverQuantData" /\ call.input.json = "bad" =>
         /\ \A i \in DOMAIN call.output : call.output[i].path = "cell"
         /\ Len(call.input.rows) <= 2 => call.output = <<>>
    /\ call.fn = "fetchCapitolTrades" =>
         LET wellFormed == Pick(call.input,
                                {i \in DOMAIN call.input :
                                   /\ call.input[i].politician # ""
                                   /\ call.input[i].ticker # ""})
         IN  call.output = [i \in DOMAIN wellFormed |-> capitolOfRow(wellFormed[i])]

C15_Witness ==
    /\ call.fn = "fetchCapitolTrades"
    /\ Len(call.input) = 2
    /\ call.input[1].politician # ""
    /\ call.input[1].ticker = ""
    /\ call.input[2].politician # ""
    /\ call.input[2].ticker # ""
    /\ call.output = <<capitolOfRow(call.input[2])>>

\* C16 (as claimed): the strategies of a chain run one after the other:
\* while strategy k >= 2 of a chain awaits its fetch, every earlier strategy
\* of the chain has finished, and each of them failed.
C16_NextStartsAfterFailure ==
    \A h \in Chains(rev) :
        pc[h] = "fetch" /\ strat[h] >= 2 =>
            last[h].kind = "fail" /\ nfail[h] = strat[h] - 1

\* C16 (amended): the strategies of a chain run one after the other: while
\* strategy k >= 2 awaits its fetch, every earlier strategy has finished and
\* none of them produced items; in scrapeTweets each of them failed, in
\* fetchViaSyndication the first either failed or answered a page that left
\* no tweet.
C16_NextStartsAfterFinish ==
    \A h \in Chains(rev) :
        pc[h] = "fetch" /\ strat[h] >= 2 =>
            /\ rev = "rss" => last[h].kind = "fail" /\ nfail[h] = strat[h] - 1
            /\ rev = "rev1" =>
                 /\ last[h].kind \in {"fail", "empty"}
                 /\ nfail[h] = Fails(last[h])

C16_Witness ==
    \E h \in Chains(rev) :
        /\ pc[h] = "fetch"
        /\ strat[h] = NumStrategies(rev, h)
        /\ nfail[h] = strat[h] - 1
        /\ rev = "rss"

\* C17 (as claimed): every fetch is bounded by a timeout, so that even when
\* an endpoint never answers the handler eventually responds.
C17_HandlerEventuallyResponds == <>(hpc = "responded")

\* C18: when CRON_SECRET is configured, a request whose authorization header
\* is absent or is not `Bearer <CRON_SECRET>` never gets past the check: it
\* is answered 401, no source function was started, the analysis service was
\* not called, no HTML was built, subscribers.json was not read and no send
\* call was made.
C18_UnauthorizedGets401 ==
    (/\ hpc # "request"
     /\ run.req # <<>>
     /\ run.req[1].secret
     /\ run.req[1].header \in {"none", "wrong"})
        => /\ hpc = "responded"
           /\ run.status = 401
           /\ \A s \in Sources(rev) : pc[s] = "idle" /\ strat[s] = 0 /\ res[s] = Pending
           /\ allItems = <<>>
           /\ run.analysisCalls = 0
           /\ ~run.built
           /\ ~run.subscribersRead
           /\ run.sends = 0

C18_Witness ==
    /\ hpc = "responded"
    /\ run.req # <<>>
    /\ run.req[1].secret
    /\ run.req[1].header = "none"
    /\ run.status = 401

\* C19: whatever the sources did, gathering is never the reason of a 500: a
\* 500 comes from the analysis call, from reading subscribers.json or from
\* sendNewsletter; the analysis call is made only on a non-empty list; and
\* every run whose analysis call did not throw has built the newsletter and
\* reached the delivery step when it responds.
C19_SourceFailuresNotFatal ==
    /\ run.status = 500 => run.cause \in {"analysis", "subscribers", "send"}
    /\ run.cause = "analysis" => allItems # <<>> /\ run.analysisCalls = 1
    /\ (hpc = "responded" /\ run.cause \notin {"auth", "analysis"}) =>
           run.built /\ run.subscribersRead
    /\ run.allExhausted => allItems = <<>> /\ run.cause # "analysis"

C19_Witness ==
    /\ run.allExhausted
    /\ hpc = "responded"
    /\ run.status = 200
    /\ run.built
    /\ run.sends = 1

\* C20 (as claimed): a run that gathered nothing does not call the analysis
\* service, uses the empty analysis, builds the HTML, sends it and answers
\* 200.
C20_EmptyItemsAnswers200 ==
    (hpc = "responded" /\ run.status # 401 /\ allItems = <<>>) =>
        /\ run.analysisCalls = 0
        /\ run.analysis.highAlerts = <<>> /\ run.analysis.otherTrades = <<>>
        /\ run.built
        /\ run.sends >= 1
        /\ run.status = 200

\* C20 (amended): a run that gathered nothing does not call the analysis
\* service, uses the template analysis with empty highAlerts and
\* otherTrades and builds the HTML; it then answers 500 when
\* subscribers.json cannot be read or sendNewsletter throws, 200 without
\* sending when the subscriber list is empty, and otherwise 200 after the
\* send calls.
C20_EmptyItemsIsNoActivity ==
    (/\ hpc \in {"analyzed", "built", "loaded", "sent", "responded"}
     /\ run.status # 401
     /\ allItems = <<>>)
        => /\ run.analysisCalls = 0
           /\ run.analysis.from = "template"
           /\ run.analysis.highAlerts = <<>> /\ run.analysis.otherTrades = <<>>
           /\ hpc # "analyzed" => run.built
           /\ hpc = "responded" =>
                /\ run.status = 500 <=> run.cause \in {"subscribers", "send"}
                /\ run.status = 200 <=> run.cause = "none"
                /\ run.status = 200 =>
                     run.sends = IF run.subscribers = 0 THEN 0 ELSE 1

C20_Witness ==
    /\ hpc = "responded"
    /\ allItems = <<>>
    /\ run.status = 200
    /\ run.analysis = EmptyTemplate
    /\ run.sends = 1
    /\ run.emailsSent = run.subscribers
    /\ run.subscribers > 0

\* C21: when the gathered list is not empty and the analysis call throws, the
\* handler answers 500 from its catch block and the run ends there: no HTML
\* is built, subscribers.json is not read and no send call is made.
C21_AnalysisFailureIs500 ==
    run.cause = "analysis" =>
        /\ hpc = "responded"
        /\ run.status = 500
        /\ allItems # <<>>
        /\ run.analysisCalls = 1
        /\ run.analysis = NoAnalysis
        /\ ~run.built
        /\ ~run.subscribersRead
        /\ run.sends = 0 /\ run.emailsSent = 0

C21_Witness ==
    /\ run.cause = "analysis"
    /\ hpc = "responded"
    /\ run.status = 500
    /\ Len(allItems) >= 2

\* C22 (as claimed): in every send call of sendNewsletter the `to` field
\* holds no subscriber address and the bcc field holds the whole batch,
\* whatever the length of the list.
C22_SubscribersOnlyInBcc ==
    call.fn = "sendNewsletter" =>
        \A i \in DOMAIN call.calls :
            /\ \A a \in Range(call.input) : a \notin Range(call.calls[i].to)
            /\ call.calls[i].bcc = batchesOf(call.input)[i]

\* the calls whose output is a list of items for the merged list
ItemCalls ==
    {"scrapeTweets", "fetchViaSyndication", "fetchViaSearchSyndication",
     "fetchQuiverQuantData", "fetchQuiverQuantTrades", "fetchCapitolTrades",
     "fetchGoogleNewsRSS"}

\* C23 (as claimed): every item a source function returns for the merged
\* list has a source label and a text that is not empty, whatever the
\* payload.
C23_ItemsHaveSourceAndText ==
    call.fn \in ItemCalls =>
        \A i \in DOMAIN call.output :
            call.output[i].source # "" /\ call.output[i].text # <<>>

\* C24: once the orchestrator returns, for every source the items of the
\* merged list that carry its label are the list the source returned, in the
\* same order, and they stand together: no item of another source lies
\* between two of them.
C24_SourceOrderPreserved ==
    Gathered =>
        \A s \in Sources(rev) :
            /\ ItemsOf(s, allItems) = res[s].value
            /\ \A i, j, k \in DOMAIN allItems :
                 (/\ i < j /\ j < k
                  /\ allItems[i].source = ItemSource(rev, s)
                  /\ allItems[k].source = ItemSource(rev, s))
                     => allItems[j].source = ItemSource(rev, s)

C24_Witness ==
    /\ Gathered
    /\ \E a, b \in Sources(rev) :
         /\ a # b
         /\ Len(res[a].value) = 2
         /\ res[a].value[1] # res[a].value[2]
         /\ res[b].value # <<>>
         /\ ItemsOf(a, allItems) = res[a].value

\* C25 (as stated): once the orchestrator returns, if the promise of source A
\* settled before the promise of source B, every item of A stands before
\* every item of B in the merged list.
C25_MergedInCompletionOrder ==
    (Gathered /\ AllSettled) =>
        \A a, b \in Sources(rev) :
            Pos(settled, a) < Pos(settled, b) => AllBefore(a, b, allItems)

\* C25 (amended): once the orchestrator returns, if source A is declared
\* before source B in the list given to Promise.allSettled, every item of A
\* stands before every item of B in the merged list, whatever the order in
\* which the two promises settled.
C25_MergedInDeclaredOrder ==
    (Gathered /\ AllSettled) =>
        \A a, b \in Sources(rev) :
            Pos(Order(rev), a) < Pos(Order(rev), b) => AllBefore(a, b, allItems)

C25_Witness ==
    /\ Gathered
    /\ AllSettled
    /\ \E a, b \in Sources(rev) :
         /\ Pos(Order(rev), a) < Pos(Order(rev), b)
         /\ Pos(settled, b) < Pos(settled, a)
         /\ res[a].value # <<>>
         /\ res[b].value # <<>>
         /\ AllBefore(a, b, allItems)

\* C26: while the sources are running, the accumulator and the result of
\* every source hold items of that source only (no other source wrote into
\* them), and the orchestrator's items and errors lists are still as
\* gatherAllData created them: they are written only by the step that
\* follows the settling of every source promise.
C26_NoSharedWritesWhileGathering ==
    hpc = "gathering" =>
        /\ allItems = <<>>
        /\ errors = <<>>
        /\ \A s \in Sources(rev) :
             \A i \in DOMAIN (acc[s] \o res[s].value) :
                 (acc[s] \o res[s].value)[i].source = ItemSource(rev, s)

C26_Witness ==
    /\ rev = "rev1"
    /\ hpc = "gathering"
    /\ twitterResults.status = "fulfilled"
    /\ pc["QuiverQuant"] # "done"
    /\ \E h \in Range(Handles) : res[h].value = <<>>
    /\ allItems = <<>>
    /\ errors = <<>>

\* C27: no source promise is ever rejected, whatever its fetches did (throw,
\* time-out, non-success status, malformed body): a settled source promise is
\* fulfilled with a list, and so is the promise of the Twitter group; the
\* errors list of the orchestrator is therefore empty in every state.
C27_NoSourceRejects ==
    /\ \A s \in Sources(rev) : res[s].status \in {"pending", "fulfilled"}
    /\ twitterResults.status \in {"pending", "fulfilled"}
    /\ errors = <<>>

C27_Witness ==
    /\ Gathered
    /\ \E s \in Sources(rev) :
         /\ nfail[s] = NumStrategies(rev, s)
         /\ res[s] = Fulfilled(<<>>)
    /\ errors = <<>>

\* C28: in fetchQuiverQuantTrades the fallback is decided article by article:
\* an article in which the markdown pattern matches nothing adds the matches
\* of the rendered-HTML pattern, or those of the plain-text pattern when the
\* rendered-HTML pattern matches nothing either, whatever the articles before
\* it added (articles of the same politician and "Unknown" articles included).
C28_FallbackPerArticle ==
    call.fn = "fetchQuiverQuantTrades" =>
        \A k \in DOMAIN call.steps :
            LET a == call.input[k]
            IN  a.md = <<>> =>
                   call.steps[k] = IF a.html # <<>>
                                   THEN tradesOfMatches(a, a.html)
                                   ELSE tradesOfMatches(a, a.plain)

\* C29: what the orchestrator returns is a function of what the sources
\* returned and not of the order in which their promises settled: the items
\* are the returned lists one after the other in declared source order, and
\* the errors list is empty since every promise is fulfilled.
C29_ResultIndependentOfSettleOrder ==
    Gathered =>
        /\ allItems = InDeclaredOrder
        /\ (\A s \in Sources(rev) : res[s].status = "fulfilled") => errors = <<>>

C29_Witness ==
    /\ Gathered
    /\ AllSettled
    /\ settled # Order(rev)
    /\ \A s \in Sources(rev) : res[s].value # <<>>
    /\ allItems = InDeclaredOrder

\* C30: sendNewsletter partitions the subscriber list: for a list of n
\* addresses it makes ceil(n/50) send attempts, each addressed to at most 50
\* subscribers, and the batches are consecutive slices in list order, so that
\* every subscriber is in exactly one batch.
C30_BatchesPartitionTheList ==
    call.fn = "sendNewsletter" =>
        /\ Len(call.calls) = (Len(call.input) + BATCH_SIZE - 1) \div BATCH_SIZE
        /\ \A i \in DOMAIN call.calls : Len(addressed(call.calls[i])) <= BATCH_SIZE
        /\ Flatten([i \in DOMAIN call.calls |-> addressed(call.calls[i])]) = call.input

\* C31: batch failures are isolated in sendNewsletter: whatever each send
\* call did (returned data, returned an error value, threw), the function
\* does not reject, the send call of every batch is made, and the list it
\* returns has one entry per batch, a success entry exactly for the batches
\* whose send returned data.
C31_BatchFailuresIsolated ==
    call.fn = "sendNewsletter" =>
        LET batches == batchesOf(call.input)
        IN  /\ ~call.rejects
            /\ call.calls = [i \in DOMAIN batches |-> sendArgs(rev, batches[i])]
            /\ DOMAIN call.output = DOMAIN batches
            /\ \A i \in DOMAIN call.output :
                  call.output[i].success <=> call.outs[i] = "ok"

\* C32: when sendNewsletter returns, the emailsSent value the handler puts in
\* its 200 response is the number of addresses in the batches whose send call
\* returned data: a batch whose send returned an error value or threw counts
\* for nothing, and the value is at most the number of subscribers.
C32_EmailsSentCountsSuccesses ==
    (call.fn = "sendNewsletter" /\ ~call.rejects) =>
        LET batches == batchesOf(call.input)
            sent == {a \in Range(call.input) :
                        \E i \in DOMAIN batches :
                            call.outs[i] = "ok" /\ a \in Range(batches[i])}
        IN  /\ call.totalSent = Cardinality(sent)
            /\ call.totalSent <= Len(call.input)

C32_Witness ==
    /\ call.fn = "sendNewsletter"
    /\ ~call.rejects
    /\ Len(call.input) = BATCH_SIZE + 1
    /\ call.outs[1] = "ok"
    /\ call.outs[2] # "ok"
    /\ call.totalSent = BATCH_SIZE

\* C33: when subscribers.json cannot be read or parsed the handler answers
\* 500 and makes no send call; when it parses to an empty list the handler
\* answers 200 with zero emails sent and makes no send call.
C33_SubscriberLoadOutcomes ==
    /\ run.cause = "subscribers" =>
         /\ hpc = "responded"
         /\ run.status = 500
         /\ run.sends = 0 /\ run.emailsSent = 0
    /\ (run.subscribersRead /\ run.cause # "subscribers" /\ run.subscribers = 0) =>
         /\ hpc = "responded"
         /\ run.status = 200
         /\ run.sends = 0 /\ run.emailsSent = 0

C33_Witness ==
    /\ hpc = "responded"
    /\ run.cause = "subscribers"
    /\ run.status = 500
    /\ run.built
    /\ run.subscribersRead
    /\ run.sends = 0

\* C34: a handler invocation sends at most one response, and a response is
\* the end of the invocation: the response count is 1 exactly when the
\* handler has returned, whatever the path (401, subscriber-load 500,
\* empty-subscribers 200, success 200, pipeline-failure 500), no step of
\* the program can follow, and the number of send calls is the one made
\* before the response.
C34_AtMostOneResponse ==
    /\ run.responses = (IF hpc = "responded" THEN 1 ELSE 0)
    /\ hpc = "responded" =>
         /\ ~ENABLED Next
         /\ run.status \in {200, 401, 500}
         /\ run.status = 401 \/ run.cause # "none" \/ run.subscribers = 0
               \/ run.sends = numBatches(run.subscribers)

C34_Witness ==
    /\ hpc = "responded"
    /\ run.responses = 1
    /\ run.status = 200
    /\ run.sends = 1
    /\ run.emailsSent = run.subscribers
    /\ ~ENABLED Next

\* C35: when every external call settles, by succeeding or by failing, every
\* handler invocation sends its response, whatever the outcomes of the calls
\* were: from the arrival of the request the handler always reaches its
\* final position, with one response sent.
C35_RespondsWhenCallsSettle ==
    (hpc = "request") ~> (hpc = "responded" /\ run.responses = 1)

C35_Witness ==
    /\ hpc = "responded"
    /\ run.responses = 1
    /\ run.status = 500
    /\ run.cause = "send"
    /\ run.allExhausted

\* C36 (as claimed): a failed query of fetchGoogleNewsRSS does not discard
\* what the other query gave: the function returns the deduplicated
\* in-window items of the queries that succeeded, all of them, and the empty
\* list only when no query yielded an item.
C36_ReturnsItemsOfEveryAnsweredQuery ==
    call.fn = "fetchGoogleNewsRSS" =>
        LET got == [q \in DOMAIN call.input |->
                       IF call.oks[q] THEN newsOfXml(rev, call.input[q]) ELSE <<>>]
            all == FirstOfEachKey(Flatten(got), dedupPrefix(rev))
        IN  /\ call.output = all
            /\ call.output = <<>> <=> \A q \in DOMAIN got : got[q] = <<>>

\* C36 (amended): a failed query of fetchGoogleNewsRSS does not discard what
\* the other query gave: the function returns the deduplicated items of the
\* queries that succeeded (title not empty, pubDate not older than 24 hours),
\* first query first, cut after the first 15 of them in the first revision
\* and the first 10 in the second, and the empty list only when no query
\* yielded an item.
C36_ReturnsCappedItemsOfAnsweredQueries ==
    call.fn = "fetchGoogleNewsRSS" =>
        LET got == [q \in DOMAIN call.input |->
                       IF call.oks[q] THEN newsOfXml(rev, call.input[q]) ELSE <<>>]
            all == FirstOfEachKey(Flatten(got), dedupPrefix(rev))
            cap == IF rev = "rev1" THEN 15 ELSE 10
        IN  /\ call.output = SubSeq(all, 1, IF Len(all) < cap THEN Len(all) ELSE cap)
            /\ call.output = <<>> <=> \A q \in DOMAIN got : got[q] = <<>>

C36_Witness ==
    /\ call.fn = "fetchGoogleNewsRSS"
    /\ call.oks = <<FALSE, TRUE>>
    /\ Len(call.input[1]) > 1
    /\ Len(call.output) = MaxHeadlines
    /\ \A i \in DOMAIN call.output :
          call.output[i] = newsOfEntry(rev, call.input[2][i])

=============================================================================
